---- MODULE Spec2Model ----
(***************************************************************************)
(* Model of the sunio-api events route (src/src/routes/events.route.ts):   *)
(* the ledger of one event (participants, expenses, payments) and the      *)
(* handlers that derive balances and settlements from it.                  *)
(*                                                                         *)
(* Numbers.  The handlers compute with JavaScript numbers.  The model      *)
(* computes with exact rationals: an amount is an integer count of ticks,  *)
(* Unit ticks making one minor unit (0.01), and Unit is a multiple of      *)
(* every possible consumer count, so that amount / consumers.length is an  *)
(* exact integer.  The rounding noise of binary floating point (of the     *)
(* order of 1e-14) is not modelled; NaN, which arises from arithmetic on   *)
(* a missing key of the balances object, is modelled (field nan).          *)
(***************************************************************************)
EXTENDS Integers, Sequences, FiniteSets, TLC

\* ------------------------------------------------------------------ bounds
MaxConsumers == 3
MaxExpenses == 1
MaxPayments == 1
MaxRecentOps == 1

\* ------------------------------------------------------------------ inputs
Ids == {"A", "B", "C"}
\* participant rows of the event, in the order the store returns them
ParticipantLists == {<<"A", "B", "C">>, <<"A", "B">>}
\* expense amounts and payment amounts a client posts, in minor units
ExpenseCents == {-100, 1, 10000}
PaymentCents == {1000, 3333}

RECURSIVE Gcd(_, _)
Gcd(a, b) == IF b = 0 THEN a ELSE Gcd(b, a % b)

RECURSIVE LcmUpTo(_)
LcmUpTo(n) == IF n <= 1 THEN 1 ELSE LET l == LcmUpTo(n - 1) IN (l * n) \div Gcd(l, n)

\* ticks per minor unit: every e.amount / e.consumers.length is a whole tick
Unit == LcmUpTo(MaxConsumers)
Cents(c) == c * Unit

ConsumerLists == UNION {[1..n -> Ids] : n \in 0..MaxConsumers}

\* the bodies a client can post to /:eventId/expenses and /:eventId/payments
ExpenseInputs ==
    {[payer_id |-> payer, amount |-> Cents(c), consumers |-> consumers] :
        payer \in Ids, c \in ExpenseCents, consumers \in ConsumerLists}
PaymentInputs ==
    {p \in [from_participant : Ids, to_participant : Ids,
            amount : {Cents(c) : c \in PaymentCents}] :
        p.from_participant # p.to_participant}

\* ----------------------------------------------------------- JS numbers
Num(x) == [nan |-> FALSE, v |-> x]
NaN == [nan |-> TRUE, v |-> 0]
Plus(x, y) == IF x.nan \/ y.nan THEN NaN ELSE Num(x.v + y.v)
Minus(x, y) == IF x.nan \/ y.nan THEN NaN ELSE Num(x.v - y.v)
\* comparisons with NaN are false
Gt(x, y) == ~x.nan /\ ~y.nan /\ x.v > y.v
Lt(x, y) == ~x.nan /\ ~y.nan /\ x.v < y.v
Abs(n) == IF n < 0 THEN -n ELSE n
Min(a, b) == IF a < b THEN a ELSE b

\* Math.round(x * 100) / 100 on a tick count: nearest minor unit, halves up
RoundCents(t) == ((2 * t + Unit) \div (2 * Unit)) * Unit

\* ------------------------------------------------- the balances object
\* A Record<string, number> is a sequence of [id, v] in key insertion order.
HasKey(bal, id) == \E k \in 1..Len(bal) : bal[k].id = id
KeyIndex(bal, id) == CHOOSE k \in 1..Len(bal) : bal[k].id = id
\* balances[id]; a missing key reads as undefined, and undefined +/- x is NaN
Read(bal, id) == IF HasKey(bal, id) THEN bal[KeyIndex(bal, id)].v ELSE NaN
Assign(bal, id, val) ==
    IF HasKey(bal, id)
    THEN [bal EXCEPT ![KeyIndex(bal, id)].v = val]
    ELSE Append(bal, [id |-> id, v |-> val])

ZeroBalances(parts) == [k \in 1..Len(parts) |-> [id |-> parts[k], v |-> Num(0)]]

\* a split that keeps whole minor units only
Split_WholeCents(e) == Num(((e.amount \div Len(e.consumers)) \div Unit) * Unit)

\* const split = e.amount / e.consumers.length
Split(e) == Num(e.amount \div Len(e.consumers))

RECURSIVE DebitConsumers(_, _, _, _)
DebitConsumers(bal, e, k, share) ==
    IF k > Len(e.consumers) THEN bal
    ELSE DebitConsumers(Assign(bal, e.consumers[k], Minus(Read(bal, e.consumers[k]), share)),
                        e, k + 1, share)

\* an expense fold that credits the payer with one share instead of e.amount
ApplyExpense_CreditShare(bal, e) ==
    LET debited == IF Len(e.consumers) = 0 THEN bal
                   ELSE DebitConsumers(bal, e, 1, Split(e))
    IN  Assign(debited, e.payer_id,
               Plus(Read(debited, e.payer_id),
                    IF Len(e.consumers) = 0 THEN Num(e.amount) ELSE Split(e)))

ApplyExpense(bal, e) ==
    LET debited == IF Len(e.consumers) = 0 THEN bal
                   ELSE DebitConsumers(bal, e, 1, Split(e))
    IN  Assign(debited, e.payer_id, Plus(Read(debited, e.payer_id), Num(e.amount)))

RECURSIVE ExpenseFold(_, _, _)
ExpenseFold(bal, exps, k) ==
    IF k > Len(exps) THEN bal ELSE ExpenseFold(ApplyExpense(bal, exps[k]), exps, k + 1)

\* a payment fold with the signs exchanged
ApplyPayment_Reversed(bal, p) ==
    LET debited == Assign(bal, p.from_participant,
                          Minus(Read(bal, p.from_participant), Num(p.amount)))
    IN  Assign(debited, p.to_participant,
               Plus(Read(debited, p.to_participant), Num(p.amount)))

\* a payment fold that forgets the destination
ApplyPayment_SourceOnly(bal, p) ==
    Assign(bal, p.from_participant, Plus(Read(bal, p.from_participant), Num(p.amount)))

ApplyPayment(bal, p) ==
    LET credited == Assign(bal, p.from_participant,
                           Plus(Read(bal, p.from_participant), Num(p.amount)))
    IN  Assign(credited, p.to_participant,
               Minus(Read(credited, p.to_participant), Num(p.amount)))

RECURSIVE PaymentFold(_, _, _)
PaymentFold(bal, pays, k) ==
    IF k > Len(pays) THEN bal ELSE PaymentFold(ApplyPayment(bal, pays[k]), pays, k + 1)

\* body of GET /:eventId/balances
Balances(parts, exps, pays) ==
    PaymentFold(ExpenseFold(ZeroBalances(parts), exps, 1), pays, 1)

\* balances of the expenses alone (GET /:eventId/settlements, step 1)
ExpenseBalances(parts, exps) == ExpenseFold(ZeroBalances(parts), exps, 1)

\* -------------------------------------------------- debt simplification
Positive(bal) == SelectSeq(bal, LAMBDA b : Gt(b.v, Num(0)))
Negative(bal) == SelectSeq(bal, LAMBDA b : Lt(b.v, Num(0)))

RECURSIVE TwoPointer(_, _, _, _, _)
TwoPointer(pos, neg, i, j, out) ==
    IF ~(i <= Len(pos) /\ j <= Len(neg)) THEN out
    ELSE LET amt == Min(pos[i].v.v, -neg[j].v.v)
             pos2 == [pos EXCEPT ![i].v = Num(pos[i].v.v - amt)]
             neg2 == [neg EXCEPT ![j].v = Num(neg[j].v.v + amt)]
             i2 == IF Abs(pos2[i].v.v) < Cents(1) THEN i + 1 ELSE i
             j2 == IF Abs(neg2[j].v.v) < Cents(1) THEN j + 1 ELSE j
         IN  TwoPointer(pos2, neg2, i2, j2,
                        Append(out, [from |-> neg[j].id, to |-> pos[i].id,
                                     amount |-> RoundCents(amt)]))

Simplify(bal) == TwoPointer(Positive(bal), Negative(bal), 1, 1, <<>>)

\* the loop's locals as it is entered, and its condition
LoopEntry(bal) == [pos |-> Positive(bal), neg |-> Negative(bal), i |-> 1, j |-> 1, out |-> <<>>]
LoopRunning(l) == l.i <= Len(l.pos) /\ l.j <= Len(l.neg)

\* an iteration that forgets the test on negative[j]
LoopIter_CreditorCursorOnly(l) ==
    LET amt == Min(l.pos[l.i].v.v, -l.neg[l.j].v.v)
        pos2 == [l.pos EXCEPT ![l.i].v = Num(l.pos[l.i].v.v - amt)]
        neg2 == [l.neg EXCEPT ![l.j].v = Num(l.neg[l.j].v.v + amt)]
    IN  [pos |-> pos2,
         neg |-> neg2,
         i |-> IF Abs(pos2[l.i].v.v) < Cents(1) THEN l.i + 1 ELSE l.i,
         j |-> l.j,
         out |-> Append(l.out, [from |-> l.neg[l.j].id, to |-> l.pos[l.i].id,
                                amount |-> RoundCents(amt)])]

\* one iteration of the loop
LoopIter(l) ==
    LET amt == Min(l.pos[l.i].v.v, -l.neg[l.j].v.v)
        pos2 == [l.pos EXCEPT ![l.i].v = Num(l.pos[l.i].v.v - amt)]
        neg2 == [l.neg EXCEPT ![l.j].v = Num(l.neg[l.j].v.v + amt)]
    IN  [pos |-> pos2,
         neg |-> neg2,
         i |-> IF Abs(pos2[l.i].v.v) < Cents(1) THEN l.i + 1 ELSE l.i,
         j |-> IF Abs(neg2[l.j].v.v) < Cents(1) THEN l.j + 1 ELSE l.j,
         out |-> Append(l.out, [from |-> l.neg[l.j].id, to |-> l.pos[l.i].id,
                                amount |-> RoundCents(amt)])]

\* ------------------------------------------------------- reconciliation
NoPayment == 0

RelatedPayments(pays, s) ==
    SelectSeq(pays, LAMBDA p : p.from_participant = s.from /\ p.to_participant = s.to)

\* an inner loop that forgets remaining -= paidAmount
RECURSIVE ConsumePayments_NoDecrement(_, _, _, _, _)
ConsumePayments_NoDecrement(s, related, k, remaining, out) ==
    IF k > Len(related) THEN <<out, remaining>>
    ELSE LET paidAmount == Min(remaining, related[k].amount)
         IN  IF paidAmount > 0
             THEN ConsumePayments_NoDecrement(s, related, k + 1, remaining,
                                  Append(out, [from |-> s.from, to |-> s.to,
                                               amount |-> RoundCents(paidAmount),
                                               payment_id |-> related[k].id]))
             ELSE ConsumePayments_NoDecrement(s, related, k + 1, remaining, out)

\* an inner loop that takes every related payment whole
RECURSIVE ConsumePayments_PayWhole(_, _, _, _, _)
ConsumePayments_PayWhole(s, related, k, remaining, out) ==
    IF k > Len(related) THEN <<out, remaining>>
    ELSE LET paidAmount == related[k].amount
         IN  IF paidAmount > 0
             THEN ConsumePayments_PayWhole(s, related, k + 1, remaining - paidAmount,
                                  Append(out, [from |-> s.from, to |-> s.to,
                                               amount |-> RoundCents(paidAmount),
                                               payment_id |-> related[k].id]))
             ELSE ConsumePayments_PayWhole(s, related, k + 1, remaining, out)

\* the inner loop over relatedPayments: <<settlements so far, remaining>>
RECURSIVE ConsumePayments(_, _, _, _, _)
ConsumePayments(s, related, k, remaining, out) ==
    IF k > Len(related) THEN <<out, remaining>>
    ELSE LET paidAmount == Min(remaining, related[k].amount)
         IN  IF paidAmount > 0
             THEN ConsumePayments(s, related, k + 1, remaining - paidAmount,
                                  Append(out, [from |-> s.from, to |-> s.to,
                                               amount |-> RoundCents(paidAmount),
                                               payment_id |-> related[k].id]))
             ELSE ConsumePayments(s, related, k + 1, remaining, out)

ReconcileOne(s, pays, out) ==
    LET r == ConsumePayments(s, RelatedPayments(pays, s), 1, s.amount, out)
    IN  IF r[2] > Cents(1)
        THEN Append(r[1], [from |-> s.from, to |-> s.to,
                           amount |-> RoundCents(r[2]), payment_id |-> NoPayment])
        ELSE r[1]

RECURSIVE Reconcile(_, _, _, _)
Reconcile(orig, pays, k, out) ==
    IF k > Len(orig) THEN out
    ELSE Reconcile(orig, pays, k + 1, ReconcileOne(orig[k], pays, out))

\* body of GET /:eventId/settlements
Settlements(parts, exps, pays) ==
    Reconcile(Simplify(ExpenseBalances(parts, exps)), pays, 1, <<>>)

\* body of POST /:eventId/settle (earlier version of the route)
Settle(parts, exps) ==
    [balances |-> ExpenseBalances(parts, exps),
     settlements |-> Simplify(ExpenseBalances(parts, exps))]

\* the shares the expense fold subtracts, one per entry of e.consumers
Shares(e) == [k \in 1..Len(e.consumers) |-> Split(e).v]

\* ------------------------------------------------- recent_events cookie
\* the cap of the list, and the events a client visits: enough of them for
\* the cap to cut the list more than once
MaxRecent == 20
NumEvents == MaxRecent + 2
EventIds == 1..NumEvents

\* recentEvents.filter((e) => e.id !== eventId)
WithoutEvent(list, eventId) == SelectSeq(list, LAMBDA e : e.id # eventId)

\* a visit that leaves the earlier entry of the event in the list
Visited_NoFilter(list, eventId, now) ==
    LET unshifted == <<[id |-> eventId, last_active |-> now]>> \o list
    IN  IF Len(unshifted) > MaxRecent THEN SubSeq(unshifted, 1, MaxRecent) ELSE unshifted

\* the list GET /:eventId writes back: filter, unshift, slice(0, 20)
Visited(list, eventId, now) ==
    LET unshifted == <<[id |-> eventId, last_active |-> now]>> \o WithoutEvent(list, eventId)
    IN  IF Len(unshifted) > MaxRecent THEN SubSeq(unshifted, 1, MaxRecent) ELSE unshifted

\* ---------------------------------------------------------------- state
VARIABLES
    participants,     \* rows of table participants (ids, in store order)
    expenses,         \* rows of table expenses
    payments,         \* rows of table payments
    nextPaymentId,    \* the id the store gives the next payment
    balancesResp,     \* last response of GET /:eventId/balances
    debits,           \* the shares that request subtracted, per expense
    settlementsResp,  \* last response of GET /:eventId/settlements
    settleResp,       \* last response of POST /:eventId/settle
    loop,             \* the two-pointer loop of a simplification in progress
    recentEvents,     \* the parsed recent_events cookie of the client
    visits            \* what the client has visited and removed so far

vars == <<participants, expenses, payments, nextPaymentId,
          balancesResp, debits, settlementsResp, settleResp,
          loop, recentEvents, visits>>

\* the state the ledger handlers leave alone
Others == <<loop, recentEvents, visits>>

\* a response not (or no longer) computed from the current rows
None == <<"none">>
Some(body) == <<"ok", body>>
IsSome(r) == r[1] = "ok"
Body(r) == r[2]

\* no simplification running, an empty cookie, nothing visited yet
InitOthers ==
    /\ loop = None
    /\ recentEvents = <<>>
    /\ visits = [next |-> 1, ops |-> 0, clock |-> 0, last |-> 0, removed |-> {},
                 seenAt |-> [id \in EventIds |-> 0]]

Init ==
    /\ participants \in ParticipantLists
    /\ expenses = <<>>
    /\ payments = <<>>
    /\ nextPaymentId = 1
    /\ balancesResp = None
    /\ debits = None
    /\ settlementsResp = None
    /\ settleResp = None
    /\ InitOthers

ClearResponses ==
    /\ balancesResp' = None
    /\ debits' = None
    /\ settlementsResp' = None
    /\ settleResp' = None

\* POST /:eventId/expenses: the row is inserted as posted
PostExpense ==
    /\ Len(expenses) < MaxExpenses
    /\ \E e \in ExpenseInputs : expenses' = Append(expenses, e)
    /\ ClearResponses
    /\ UNCHANGED <<participants, payments, nextPaymentId>>
    /\ UNCHANGED Others

\* POST /:eventId/payments
PostPayment ==
    /\ nextPaymentId <= MaxPayments
    /\ \E p \in PaymentInputs :
          payments' = Append(payments, [id |-> nextPaymentId,
                                        from_participant |-> p.from_participant,
                                        to_participant |-> p.to_participant,
                                        amount |-> p.amount])
    /\ nextPaymentId' = nextPaymentId + 1
    /\ ClearResponses
    /\ UNCHANGED <<participants, expenses>>
    /\ UNCHANGED Others

\* DELETE /:eventId/payments/:paymentId
DeletePayment ==
    /\ \E k \in 1..Len(payments) :
          payments' = [x \in 1..(Len(payments) - 1) |->
                          IF x < k THEN payments[x] ELSE payments[x + 1]]
    /\ ClearResponses
    /\ UNCHANGED <<participants, expenses, nextPaymentId>>
    /\ UNCHANGED Others

\* GET /:eventId/balances
GetBalances ==
    /\ balancesResp' = Some(Balances(participants, expenses, payments))
    /\ debits' = Some([k \in 1..Len(expenses) |-> Shares(expenses[k])])
    /\ UNCHANGED <<participants, expenses, payments, nextPaymentId,
                   settlementsResp, settleResp>>
    /\ UNCHANGED Others

\* GET /:eventId/settlements
GetSettlements ==
    /\ settlementsResp' = Some(Settlements(participants, expenses, payments))
    /\ UNCHANGED <<participants, expenses, payments, nextPaymentId,
                   balancesResp, debits, settleResp>>
    /\ UNCHANGED Others

\* POST /:eventId/settle (earlier version: no payments table)
PostSettle ==
    /\ settleResp' = Some(Settle(participants, expenses))
    /\ UNCHANGED <<participants, expenses, payments, nextPaymentId,
                   balancesResp, debits, settlementsResp>>
    /\ UNCHANGED Others

Next ==
    \/ PostExpense
    \/ PostPayment
    \/ GetBalances
    \/ GetSettlements

Spec == Init /\ [][Next]_vars

\* the earlier version of the route: expenses only, POST /:eventId/settle
NextV1 ==
    \/ PostExpense
    \/ GetBalances
    \/ PostSettle

SpecV1 == Init /\ [][NextV1]_vars

\* The event after one expense has been posted: the ledgers on which the
\* expense fold and the reconciliation are examined, one expense at a time.
InitOneExpense ==
    /\ participants \in ParticipantLists
    /\ expenses \in {<<e>> : e \in ExpenseInputs}
    /\ payments = <<>>
    /\ nextPaymentId = 1
    /\ balancesResp = None
    /\ debits = None
    /\ settlementsResp = None
    /\ settleResp = None
    /\ InitOthers

\* the expense fold of GET /:eventId/balances on one expense
SpecSplit == InitOneExpense /\ [][GetBalances]_vars

\* payments recorded against one expense, and the settlements report
NextReconcile ==
    \/ PostPayment
    \/ GetSettlements

SpecReconcile == InitOneExpense /\ [][NextReconcile]_vars

\* payments recorded against one expense, with both reports
NextLedger ==
    \/ PostPayment
    \/ GetBalances
    \/ GetSettlements

SpecLedger == InitOneExpense /\ [][NextLedger]_vars

\* payments recorded and deleted against one expense, and the balances
NextPayments ==
    \/ PostPayment
    \/ DeletePayment
    \/ GetBalances

SpecPayments == InitOneExpense /\ [][NextPayments]_vars

\* GET /:eventId/settlements up to the loop: balances from the expenses, the
\* creditors' and the debtors' lists, both cursors at the first entry
StartSimplify ==
    /\ loop = None
    /\ loop' = Some(LoopEntry(ExpenseBalances(participants, expenses)))
    /\ UNCHANGED <<participants, expenses, payments, nextPaymentId,
                   balancesResp, debits, settlementsResp, settleResp>>
    /\ UNCHANGED <<recentEvents, visits>>

\* the loop condition holds: one iteration
LoopIteration ==
    /\ IsSome(loop)
    /\ LoopRunning(Body(loop))
    /\ loop' = Some(LoopIter(Body(loop)))
    /\ UNCHANGED <<participants, expenses, payments, nextPaymentId,
                   balancesResp, debits, settlementsResp, settleResp>>
    /\ UNCHANGED <<recentEvents, visits>>

\* the loop condition fails: the reconciliation runs and the route answers
LoopExit ==
    /\ IsSome(loop)
    /\ ~LoopRunning(Body(loop))
    /\ settlementsResp' = Some(Reconcile(Body(loop).out, payments, 1, <<>>))
    /\ loop' = None
    /\ UNCHANGED <<participants, expenses, payments, nextPaymentId,
                   balancesResp, debits, settleResp>>
    /\ UNCHANGED <<recentEvents, visits>>

\* GET /:eventId/settlements taken one loop iteration at a time; the handler
\* is synchronous from the loop on, so a started loop keeps being stepped
NextLoop ==
    \/ StartSimplify
    \/ LoopIteration
    \/ LoopExit

SpecLoop ==
    /\ InitOneExpense
    /\ [][NextLoop]_vars
    /\ WF_vars(LoopIteration)
    /\ WF_vars(LoopExit)

\* GET /:eventId of an existing event: the cookie is rewritten with the event
\* at the head; the client's record of its visits is brought up to date
GetEvent(eventId) ==
    /\ recentEvents' = Visited(recentEvents, eventId, visits.clock + 1)
    /\ visits' = [visits EXCEPT !.clock = @ + 1,
                                !.last = eventId,
                                !.removed = @ \ {eventId},
                                !.seenAt[eventId] = visits.clock + 1,
                                !.next = IF eventId = @ THEN @ + 1 ELSE @,
                                !.ops = IF eventId = visits.next THEN @ ELSE @ + 1]
    /\ UNCHANGED <<participants, expenses, payments, nextPaymentId,
                   balancesResp, debits, settlementsResp, settleResp, loop>>

\* the client opens an event it has not opened before
VisitNew ==
    /\ visits.next <= NumEvents
    /\ GetEvent(visits.next)

\* the client opens an event again
Revisit ==
    /\ visits.ops < MaxRecentOps
    /\ \E eventId \in 1..(visits.next - 1) : GetEvent(eventId)

\* DELETE /recent/:eventId, for an event of the list or any other
DeleteRecent ==
    /\ visits.ops < MaxRecentOps
    /\ \E eventId \in EventIds :
          /\ eventId <= visits.next
          /\ recentEvents' = WithoutEvent(recentEvents, eventId)
          /\ visits' = [visits EXCEPT !.removed = @ \cup {eventId}, !.ops = @ + 1]
    /\ UNCHANGED <<participants, expenses, payments, nextPaymentId,
                   balancesResp, debits, settlementsResp, settleResp, loop>>

\* one client's visits and removals, one request after the other
NextRecent ==
    \/ VisitNew
    \/ Revisit
    \/ DeleteRecent

\* a client with no cookie and one event's rows; the cookie routes read
\* neither participants nor expenses nor payments
InitRecent ==
    /\ Init
    /\ participants = <<"A", "B", "C">>

SpecRecent == InitRecent /\ [][NextRecent]_vars

\* ====================================================== properties
RECURSIVE SumNums(_, _)
SumNums(bal, k) == IF k > Len(bal) THEN Num(0) ELSE Plus(bal[k].v, SumNums(bal, k + 1))

RECURSIVE SumInts(_, _)
SumInts(seq, k) == IF k > Len(seq) THEN 0 ELSE seq[k] + SumInts(seq, k + 1)

Range(seq) == {seq[k] : k \in 1..Len(seq)}
Count(id, seq) == Cardinality({k \in 1..Len(seq) : seq[k] = id})

\* a transfer of x from debtor f to creditor t, as a payment moves the balances
Transfer(bal, f, t, x) ==
    [k \in 1..Len(bal) |->
        [id |-> bal[k].id,
         v |-> Plus(bal[k].v, Num((IF bal[k].id = f THEN x ELSE 0)
                                  - (IF bal[k].id = t THEN x ELSE 0)))]]

RECURSIVE TransferAll(_, _, _)
TransferAll(bal, setts, k) ==
    IF k > Len(setts) THEN bal
    ELSE TransferAll(Transfer(bal, setts[k].from, setts[k].to, setts[k].amount), setts, k + 1)

AllZero(bal) == \A k \in 1..Len(bal) : bal[k].v = Num(0)

KnownIds(e) == e.payer_id \in Range(participants) /\ Range(e.consumers) \subseteq Range(participants)

\* every expense names participants only, has consumers and a positive amount,
\* and every payment is between participants
WellFormedLedger ==
    /\ \A k \in 1..Len(expenses) :
          /\ KnownIds(expenses[k])
          /\ Len(expenses[k].consumers) > 0
          /\ expenses[k].amount > 0
    /\ \A k \in 1..Len(payments) :
          {payments[k].from_participant, payments[k].to_participant}
              \subseteq Range(participants)

\* C1: the balances returned by GET /:eventId/balances sum to exactly 0,
\* whatever expenses and payments the event holds.
C1_BalancesSumToZero ==
    IsSome(balancesResp) => SumNums(Body(balancesResp), 1) = Num(0)

C3_SimplifyDrivesToZero ==
    (IsSome(settleResp) /\ WellFormedLedger) =>
        AllZero(TransferAll(Body(settleResp).balances, Body(settleResp).settlements, 1))

\* C4: applying every Settlement of GET /:eventId/settlements to the balances
\* of GET /:eventId/balances for the same rows drives every balance to 0
\* (stated here for well-formed expenses and payments only).
C4_SettlementsDriveBalancesToZero ==
    (IsSome(balancesResp) /\ IsSome(settlementsResp) /\ WellFormedLedger) =>
        AllZero(TransferAll(Body(balancesResp), Body(settlementsResp), 1))

\* the total of the settlements that carry payment reference pid
RECURSIVE ReferencedTotal(_, _, _)
ReferencedTotal(setts, pid, k) ==
    IF k > Len(setts) THEN 0
    ELSE (IF setts[k].payment_id = pid THEN setts[k].amount ELSE 0)
         + ReferencedTotal(setts, pid, k + 1)

\* C5: in the settlements report the settlements carrying a payment's
\* reference total exactly that payment's amount, for every payment (stated
\* here for well-formed expenses and payments only).
C5_PaymentsAccountedOnce ==
    (IsSome(settlementsResp) /\ WellFormedLedger) =>
        \A k \in 1..Len(payments) :
            ReferencedTotal(Body(settlementsResp), payments[k].id, 1) = payments[k].amount

\* C6: every transaction emitted by the debt simplification has amount > 0
\* (stated here for well-formed expenses only).
C6_SimplifyAmountsPositive ==
    (IsSome(settleResp) /\ WellFormedLedger) =>
        \A k \in 1..Len(Body(settleResp).settlements) :
            Body(settleResp).settlements[k].amount > 0

\* C7: when an expense references a payer or consumer id that is no
\* participant, GET /:eventId/balances returns no balances (it fails with
\* UnknownParticipant).
C7_UnknownParticipantFails ==
    IsSome(balancesResp) => \A k \in 1..Len(expenses) : KnownIds(expenses[k])

\* C8: no balances and no settlements are computed from an expense with an
\* empty consumer list or a non-positive amount (it is rejected).
C8_InvalidExpenseRejected ==
    (IsSome(balancesResp) \/ IsSome(settlementsResp)) =>
        \A k \in 1..Len(expenses) :
            Len(expenses[k].consumers) > 0 /\ expenses[k].amount > 0

\* ---- C9: Policy A, stated from the payments' amounts (not from a running
\* remainder): of the k-th payment between the pair, the part that still
\* fits under S after the payments before it.
PaymentsBetween(f, t) ==
    SelectSeq(payments, LAMBDA p : p.from_participant = f /\ p.to_participant = t)

RECURSIVE PaidBefore(_, _)
PaidBefore(rel, k) == IF k <= 1 THEN 0 ELSE rel[k - 1].amount + PaidBefore(rel, k - 1)

Matched(s, rel, k) ==
    LET room == s.amount - PaidBefore(rel, k)
        m == Min(room, rel[k].amount)
    IN  IF m > 0 THEN m ELSE 0

ExpectedFor(s) ==
    LET rel == PaymentsBetween(s.from, s.to)
        paid == [k \in 1..Len(rel) |->
                    [from |-> s.from, to |-> s.to, amount |-> Matched(s, rel, k),
                     payment_id |-> rel[k].id]]
        rest == s.amount - PaidBefore(rel, Len(rel) + 1)
    IN  SelectSeq(paid, LAMBDA x : x.amount > 0)
        \o (IF rest > Cents(1)
            THEN <<[from |-> s.from, to |-> s.to, amount |-> rest, payment_id |-> NoPayment]>>
            ELSE <<>>)

RECURSIVE ExpectedReport(_, _)
ExpectedReport(orig, k) ==
    IF k > Len(orig) THEN <<>> ELSE ExpectedFor(orig[k]) \o ExpectedReport(orig, k + 1)

EvenSplitExpense == [payer_id |-> "A", amount |-> Cents(10000), consumers |-> <<"A", "B", "C">>]
EvenSplit == participants = <<"A", "B", "C">> /\ expenses = <<EvenSplitExpense>>

PaymentReducesDebt ==
    /\ EvenSplit
    /\ Len(payments) = 1
    /\ payments[1].from_participant = "B"
    /\ payments[1].to_participant = "A"
    /\ payments[1].amount = Cents(3333)
    /\ IsSome(balancesResp)
    /\ IsSome(settlementsResp)

Unreferenced(setts) == SelectSeq(setts, LAMBDA x : x.payment_id = NoPayment)

Delta(id, f, t, x) == (IF id = f THEN x ELSE 0) - (IF id = t THEN x ELSE 0)

BetweenParticipants(p) ==
    {p.from_participant, p.to_participant} \subseteq Range(participants)

RemoveAt(seq, k) == [x \in 1..(Len(seq) - 1) |-> IF x < k THEN seq[x] ELSE seq[x + 1]]

\* bal2 is bal1 with +x for f, -x for t and every other entry as it was
ShiftedBy(bal1, bal2, f, t, x) ==
    /\ Len(bal2) = Len(bal1)
    /\ \A k \in 1..Len(bal1) :
          /\ bal2[k].id = bal1[k].id
          /\ bal2[k].v.nan = bal1[k].v.nan
          /\ bal2[k].v.v = (IF bal1[k].v.nan THEN 0
                            ELSE bal1[k].v.v + Delta(bal1[k].id, f, t, x))
          /\ bal1[k].id \in {f, t} => ~bal2[k].v.nan

Leftover(bal) == SumNums(Positive(bal), 1).v + SumNums(Negative(bal), 1).v

\* C13: when the creditors' total and the debtors' total of the balances given
\* to the simplification differ, the unmatched leftover is reported as an
\* inconsistency and never silently dropped: GET /:eventId/settlements answers
\* with a list of settlements only when the two totals are equal.
C13_LeftoverReported ==
    IsSome(settlementsResp) => Leftover(ExpenseBalances(participants, expenses)) = 0

\* an iteration moves no cursor back, moves each by at most one and moves at
\* least one of them
LoopAdvances ==
    (IsSome(loop) /\ IsSome(loop')) =>
        /\ loop'[2].i \in {loop[2].i, loop[2].i + 1}
        /\ loop'[2].j \in {loop[2].j, loop[2].j + 1}
        /\ loop'[2].i + loop'[2].j > loop[2].i + loop[2].j

\* the loop is left exactly when a cursor has passed the end of its list
LoopStops ==
    IsSome(loop) =>
        ((loop' = None) <=> (loop[2].i > Len(loop[2].pos) \/ loop[2].j > Len(loop[2].neg)))

\* C14: the two-pointer loop of the debt simplification terminates: every
\* iteration advances the creditor cursor, the debtor cursor or both, the loop
\* stops as soon as either cursor is exhausted, and a loop that has been
\* entered is eventually left.
C14_LoopTerminates ==
    /\ [][LoopAdvances /\ LoopStops]_vars
    /\ (IsSome(loop) ~> (loop = None))

\* C14 witness: the loop has run one iteration that moved the debtor cursor
\* only, and goes on.
C14_Witness ==
    /\ IsSome(loop)
    /\ Body(loop).i = 1
    /\ Body(loop).j = 2
    /\ LoopRunning(Body(loop))

\* the amounts of the settlements of a report for the pair (f, t)
RECURSIVE PairTotal(_, _, _, _)
PairTotal(setts, f, t, k) ==
    IF k > Len(setts) THEN 0
    ELSE (IF setts[k].from = f /\ setts[k].to = t THEN setts[k].amount ELSE 0)
         + PairTotal(setts, f, t, k + 1)

Suggested == Simplify(ExpenseBalances(participants, expenses))

RecentIds == [k \in 1..Len(recentEvents) |-> recentEvents[k].id]

\* the events visited and not removed since their last visit
Kept == {id \in EventIds : visits.seenAt[id] > 0 /\ id \notin visits.removed}

====
